---- MODULE Spec2Model ----
(***************************************************************************)
(* Model of the Kia vehicle-control HTTP gateway (src/main.py).            *)
(*                                                                         *)
(* The Flask development server started by app.run() handles requests in   *)
(* threads, so the model runs the route handlers on several threads that   *)
(* share the single module-level vehicle_manager.  Every call into the     *)
(* external client library is one atomic step whose outcome (return, raise *)
(* AuthenticationError, raise another exception) is chosen by the          *)
(* environment.  Each request keeps the list of the calls made for it and  *)
(* the response it was given.                                              *)
(***************************************************************************)
EXTENDS Integers, Sequences, FiniteSets, TLC

VARIABLES VEHICLE_ID, vehicle_manager, requests

vars == <<VEHICLE_ID, vehicle_manager, requests>>

----------------------------------------------------------------------------
(* Bounds *)

\* number of requests the server receives in one behaviour; app.run() serves
\* each on a thread of its own, so all of them may be in flight together
MaxRequests == 2

RequestIds == 1..MaxRequests

----------------------------------------------------------------------------
(* Values *)

\* Python's None
None == "None"

\* os.environ.get("SECRET_KEY"); startup guarantees it is non-empty
SECRET_KEY == "s3cret"

\* values of request.headers.get("Authorization")
Headers == {None, SECRET_KEY, "Bearer s3cret"}

\* values of os.environ.get("VEHICLE_ID"): unset, or an identifier (one that
\* is a key of one of the Collections below, though not its first, and no key
\* of the other)
VehicleIdSettings == {None, "v1"}

\* the keys of vehicle_manager.vehicles in dict iteration order
Collections == {<<>>, <<"v2", "v1">>}

\* ClimateRequestOptions(set_temp=72, duration=10)
SET_TEMP == 72

DURATION == 10

GatedPaths == {"/auth_status", "/list_vehicles", "/start_climate",
               "/stop_climate", "/unlock_car", "/lock_car"}

CommandPaths == {"/start_climate", "/stop_climate", "/unlock_car", "/lock_car"}

\* how a call into the client library ends
Outcomes == {"ok", "AuthenticationError", "Exception"}

\* the endings drawn for the calls that follow the token refresh: an
\* AuthenticationError raised there reaches the except clause that one raised
\* by the refresh reaches
LaterOutcomes == {"ok", "Exception"}

\* a response not sent yet
NoResponse == [status |-> 0, json |-> FALSE, body |-> [none |-> None]]

\* a request that has not arrived yet
NoRequest == [path |-> None, auth |-> None, pc |-> "new", vehicle_id |-> None,
              calls |-> <<>>, response |-> NoResponse]

----------------------------------------------------------------------------
(* Helper functions of main.py *)

\* Python truthiness of an optional string: None and "" are false
Truthy(s) == s # None /\ s # ""

\* authorize_request() that only asks for the header to be present
authorize_request_present(auth) == auth # None

authorize_request(auth) == auth = SECRET_KEY

Returned == [raised |-> FALSE, type |-> None, msg |-> None]

Raise(type, msg) == [raised |-> TRUE, type |-> type, msg |-> msg]

\* str() of an exception raised inside the client library
UpstreamMessage(outcome) ==
    IF outcome = "AuthenticationError" THEN "upstream: login rejected"
    ELSE "upstream: request failed"

\* what a library call that ended with `outcome` does to its caller
LibraryCall(outcome) ==
    IF outcome = "ok" THEN Returned ELSE Raise(outcome, UpstreamMessage(outcome))

\* ensure_authenticated() that swallows the authentication error
ensure_authenticated_swallow(outcome) ==
    IF outcome = "AuthenticationError" THEN Returned ELSE LibraryCall(outcome)

\* ensure_authenticated(), given how check_and_refresh_token() ended: an
\* AuthenticationError is re-raised with the remediation message, anything
\* else propagates
ensure_authenticated(outcome) ==
    IF outcome = "AuthenticationError"
    THEN Raise("AuthenticationError",
               "Kia authentication failed. Open the Kia app and complete 2FA, then retry.")
    ELSE LibraryCall(outcome)

\* get_vehicle_id() that returns None for an empty collection instead of raising
get_vehicle_id_no_raise(configured, vehicles) ==
    IF Truthy(configured)
    THEN [raised |-> FALSE, type |-> None, msg |-> None,
          value |-> configured, read |-> FALSE]
    ELSE [raised |-> FALSE, type |-> None, msg |-> None,
          value |-> IF Len(vehicles) = 0 THEN None ELSE Head(vehicles), read |-> TRUE]

\* get_vehicle_id() that returns VEHICLE_ID only if the account has that
\* vehicle, and the last vehicle rather than the first otherwise
get_vehicle_id_checked(configured, vehicles) ==
    IF Truthy(configured) /\ \E k \in 1..Len(vehicles) : vehicles[k] = configured
    THEN [raised |-> FALSE, type |-> None, msg |-> None,
          value |-> configured, read |-> TRUE]
    ELSE IF Len(vehicles) = 0
    THEN [raised |-> TRUE, type |-> "ValueError",
          msg |-> "No vehicles found on the Kia account.",
          value |-> None, read |-> TRUE]
    ELSE [raised |-> FALSE, type |-> None, msg |-> None,
          value |-> vehicles[Len(vehicles)], read |-> TRUE]

\* get_vehicle_id(), given VEHICLE_ID and the keys of vehicle_manager.vehicles;
\* `read` tells whether vehicle_manager.vehicles was read
get_vehicle_id(configured, vehicles) ==
    IF Truthy(configured)
    THEN [raised |-> FALSE, type |-> None, msg |-> None,
          value |-> configured, read |-> FALSE]
    ELSE IF Len(vehicles) = 0
    THEN [raised |-> TRUE, type |-> "ValueError",
          msg |-> "No vehicles found on the Kia account.",
          value |-> None, read |-> TRUE]
    ELSE [raised |-> FALSE, type |-> None, msg |-> None,
          value |-> Head(vehicles), read |-> TRUE]

----------------------------------------------------------------------------
(* Responses *)

Json(status, body) == [status |-> status, json |-> TRUE, body |-> body]

Unauthorized == Json(403, [error |-> "Unauthorized"])

\* except clauses that answer 404 when there are no vehicles
except_clauses_not_found(e) ==
    CASE e.type = "AuthenticationError" ->
           Json(401, [error |-> "Authentication failed", details |-> e.msg,
                      action |-> "Open Kia app and complete 2FA"])
      [] e.type = "ValueError" -> Json(404, [error |-> e.msg])
      [] OTHER -> Json(500, [error |-> e.msg])

\* except clauses whose 500 carries the text under `message`
except_clauses_message(e) ==
    IF e.type = "AuthenticationError"
    THEN Json(401, [error |-> "Authentication failed", details |-> e.msg,
                    action |-> "Open Kia app and complete 2FA"])
    ELSE Json(500, [message |-> e.msg])

\* the except clauses shared by /list_vehicles and the command routes
except_clauses(e) ==
    IF e.type = "AuthenticationError"
    THEN Json(401, [error |-> "Authentication failed", details |-> e.msg,
                    action |-> "Open Kia app and complete 2FA"])
    ELSE Json(500, [error |-> e.msg])

\* /auth_status catches AuthenticationError only; any other exception leaves
\* the view and Flask answers with its own 500 page, which is not JSON
auth_status_except(e) ==
    IF e.type = "AuthenticationError"
    THEN Json(401, [status |-> "authentication_failed", message |-> e.msg])
    ELSE [status |-> 500, json |-> FALSE, body |-> [html |-> "Internal Server Error"]]

root_response == Json(200, [status |-> "OK", service |-> "Kia Vehicle Control API"])

\* the vehicle list of /list_vehicles
vehicle_list(vehicles) == [i \in 1..Len(vehicles) |-> [id |-> vehicles[i]]]

list_vehicles_response(vehicles) ==
    IF Len(vehicles) = 0
    THEN Json(404, [error |-> "No vehicles found"])
    ELSE Json(200, [status |-> "success", vehicles |-> vehicle_list(vehicles)])

\* the library method and the status tag of each command route
Command(path) ==
    CASE path = "/start_climate" -> [op |-> "start_climate", tag |-> "climate_started"]
      [] path = "/stop_climate"  -> [op |-> "stop_climate", tag |-> "climate_stopped"]
      [] path = "/unlock_car"    -> [op |-> "unlock", tag |-> "car_unlocked"]
      [] path = "/lock_car"      -> [op |-> "lock", tag |-> "car_locked"]

CommandOps == {Command(p).op : p \in CommandPaths}

\* the arguments a command route passes to the library
CommandArgs(path, vid) ==
    IF path = "/start_climate"
    THEN [vehicle_id |-> vid, set_temp |-> SET_TEMP, duration |-> DURATION]
    ELSE [vehicle_id |-> vid]

\* a command route that answers 200 without regard to how the command ended
command_response_unchecked(path, outcome) ==
    Json(200, [status |-> Command(path).tag, result |-> "ack"])

command_response(path, outcome) ==
    IF outcome = "ok"
    THEN Json(200, [status |-> Command(path).tag, result |-> "ack"])
    ELSE except_clauses(LibraryCall(outcome))

----------------------------------------------------------------------------
(* The client library, as far as main.py can observe it *)

\* check_and_refresh_token(): a successful refresh leaves a valid token and
\* may have (re)loaded the account's vehicles; a failed one leaves the handle
\* as it was
check_and_refresh_token(vm, outcome, loaded) ==
    IF outcome = "ok" THEN [token |-> "valid", vehicles |-> loaded] ELSE vm

\* one call made while handling a request: the library method (or
\* get_vehicle_id, or the read of vehicle_manager.vehicles), what it was given
\* or saw, and how it ended
Call(op, arg, outcome) == [op |-> op, arg |-> arg, outcome |-> outcome]

\* a command is dropped if some request already had the same one acknowledged
Invoke_debounced(log, op, arg, outcome) ==
    IF /\ op \in {"start_climate", "stop_climate", "unlock", "lock"}
       /\ \E q \in RequestIds : \E i \in 1..Len(requests[q].calls) :
             requests[q].calls[i] = Call(op, arg, "ok")
    THEN log
    ELSE Append(log, Call(op, arg, outcome))

\* the calls a request made so far plus one more
Invoke(log, op, arg, outcome) == Append(log, Call(op, arg, outcome))

----------------------------------------------------------------------------
(* Request handling *)

Arrived == {r \in RequestIds : requests[r].pc # "new"}

\* the handler of request r returns `resp`
Return(r, log, resp) ==
    requests' = [requests EXCEPT ![r].pc = "done", ![r].calls = log, ![r].response = resp]

\* the handler of request r goes on to `next`
Goto(r, log, next) ==
    requests' = [requests EXCEPT ![r].pc = next, ![r].calls = log]

\* handlers that take a lock around refresh, sync and command
At_serialized(r, path, where) ==
    /\ requests[r].pc = where
    /\ requests[r].path = path
    /\ where = "check_and_refresh_token"
       => \A q \in RequestIds \ {r} :
             requests[q].pc \in {"new", "done", "check_and_refresh_token"}

At(r, path, where) == requests[r].pc = where /\ requests[r].path = path

\* the next request arrives, for a gated route; the handler's first statement
\* answers 403 unless authorize_request()
Gate(r, path) ==
    /\ requests[r].pc = "new"
    /\ r = Cardinality(Arrived) + 1
    /\ \E auth \in Headers :
         requests' = [requests EXCEPT ![r] =
             IF authorize_request(auth)
             THEN [@ EXCEPT !.path = path, !.auth = auth, !.pc = "check_and_refresh_token"]
             ELSE [@ EXCEPT !.path = path, !.auth = auth, !.pc = "done",
                            !.response = Unauthorized]]
    /\ UNCHANGED <<VEHICLE_ID, vehicle_manager>>

\* refresh_and_sync(), first half: ensure_authenticated()
RefreshStep(r, path) ==
    /\ At(r, path, "check_and_refresh_token")
    /\ \E outcome \in Outcomes, loaded \in Collections :
         LET log == Invoke(requests[r].calls, "check_and_refresh_token", None, outcome)
             e == ensure_authenticated(outcome)
         IN  /\ vehicle_manager' = check_and_refresh_token(vehicle_manager, outcome, loaded)
             /\ IF e.raised
                THEN Return(r, log, except_clauses(e))
                ELSE Goto(r, log, "update_all_vehicles_with_cached_state")
    /\ UNCHANGED VEHICLE_ID

\* refresh_and_sync(), second half: update_all_vehicles_with_cached_state()
SyncStep(r, path, next) ==
    /\ At(r, path, "update_all_vehicles_with_cached_state")
    /\ \E outcome \in LaterOutcomes :
         LET log == Invoke(requests[r].calls, "update_all_vehicles_with_cached_state",
                           None, outcome)
             e == LibraryCall(outcome)
         IN  IF e.raised THEN Return(r, log, except_clauses(e)) ELSE Goto(r, log, next)
    /\ UNCHANGED <<VEHICLE_ID, vehicle_manager>>

\* vehicle_id = get_vehicle_id()
ResolveStep(r, path) ==
    /\ At(r, path, "get_vehicle_id")
    /\ LET got == get_vehicle_id(VEHICLE_ID, vehicle_manager.vehicles)
           log == Invoke(requests[r].calls, "get_vehicle_id",
                         [configured |-> VEHICLE_ID, vehicles |-> vehicle_manager.vehicles,
                          read |-> got.read, value |-> got.value],
                         IF got.raised THEN got.type ELSE "ok")
       IN  IF got.raised
           THEN Return(r, log, except_clauses(got))
           ELSE requests' = [requests EXCEPT ![r].pc = "command", ![r].calls = log,
                                             ![r].vehicle_id = got.value]
    /\ UNCHANGED <<VEHICLE_ID, vehicle_manager>>

\* result = vehicle_manager.<command>(vehicle_id, ...) and the return
CommandStep(r, path) ==
    /\ At(r, path, "command")
    /\ \E outcome \in LaterOutcomes :
         Return(r, Invoke(requests[r].calls, Command(path).op,
                          CommandArgs(path, requests[r].vehicle_id), outcome),
                command_response(path, outcome))
    /\ UNCHANGED <<VEHICLE_ID, vehicle_manager>>

command_route(r, path) ==
    \/ Gate(r, path)
    \/ RefreshStep(r, path)
    \/ SyncStep(r, path, "get_vehicle_id")
    \/ ResolveStep(r, path)
    \/ CommandStep(r, path)

----------------------------------------------------------------------------
(* Routes *)

\* GET / behind the authorization check
root_gated(r) ==
    /\ requests[r].pc = "new"
    /\ r = Cardinality(Arrived) + 1
    /\ \E auth \in Headers :
         requests' = [requests EXCEPT ![r] =
             [@ EXCEPT !.path = "/", !.auth = auth, !.pc = "done",
                       !.response = IF authorize_request(auth) THEN root_response
                                    ELSE Unauthorized]]
    /\ UNCHANGED <<VEHICLE_ID, vehicle_manager>>

root(r) ==
    /\ requests[r].pc = "new"
    /\ r = Cardinality(Arrived) + 1
    /\ \E auth \in Headers :
         requests' = [requests EXCEPT ![r] =
             [@ EXCEPT !.path = "/", !.auth = auth, !.pc = "done", !.response = root_response]]
    /\ UNCHANGED <<VEHICLE_ID, vehicle_manager>>

auth_status(r) ==
    \/ Gate(r, "/auth_status")
    \/ /\ At(r, "/auth_status", "check_and_refresh_token")
       /\ \E outcome \in Outcomes, loaded \in Collections :
            LET log == Invoke(requests[r].calls, "check_and_refresh_token", None, outcome)
                e == ensure_authenticated(outcome)
            IN  /\ vehicle_manager' = check_and_refresh_token(vehicle_manager, outcome, loaded)
                /\ IF e.raised
                   THEN Return(r, log, auth_status_except(e))
                   ELSE Return(r, log, Json(200, [status |-> "authenticated"]))
       /\ UNCHANGED VEHICLE_ID

list_vehicles(r) ==
    \/ Gate(r, "/list_vehicles")
    \/ RefreshStep(r, "/list_vehicles")
    \/ SyncStep(r, "/list_vehicles", "vehicles")
    \/ /\ At(r, "/list_vehicles", "vehicles")
       /\ Return(r, Invoke(requests[r].calls, "vehicles", vehicle_manager.vehicles, "ok"),
                 list_vehicles_response(vehicle_manager.vehicles))
       /\ UNCHANGED <<VEHICLE_ID, vehicle_manager>>

start_climate(r) == command_route(r, "/start_climate")

stop_climate(r) == command_route(r, "/stop_climate")

unlock_car(r) == command_route(r, "/unlock_car")

lock_car(r) == command_route(r, "/lock_car")

----------------------------------------------------------------------------
(* Specification *)

Init ==
    /\ VEHICLE_ID \in VehicleIdSettings
    /\ vehicle_manager = [token |-> None, vehicles |-> <<>>]
    /\ requests = [r \in RequestIds |-> NoRequest]

Next ==
    \E r \in RequestIds :
        \/ root(r)
        \/ auth_status(r)
        \/ list_vehicles(r)
        \/ start_climate(r)
        \/ stop_climate(r)
        \/ unlock_car(r)
        \/ lock_car(r)

Spec == Init /\ [][Next]_vars

----------------------------------------------------------------------------
(* Vocabulary of the properties *)

Has(r) == requests[r].pc # "new"

Done(r) == requests[r].pc = "done"

Authorized(r) == requests[r].auth = SECRET_KEY

\* the positions of request r's calls whose method is one of `ops`
CallsOf(r, ops) == {i \in 1..Len(requests[r].calls) : requests[r].calls[i].op \in ops}

HasField(resp, f) == resp.json /\ f \in DOMAIN resp.body

\* request r's token refresh ended with `outcome`
RefreshEnded(r, outcome) ==
    /\ Len(requests[r].calls) >= 1
    /\ requests[r].calls[1] = Call("check_and_refresh_token", None, outcome)

----------------------------------------------------------------------------
(* C1: a request to a gated route whose Authorization header is absent or
   differs from the shared secret is answered 403 {error: "Unauthorized"},
   and no call on vehicle_manager (token refresh, sync, read of the vehicle
   collection, command) is made for it. *)
C1_UnauthorizedRejected ==
    \A r \in RequestIds :
        (Has(r) /\ requests[r].path \in GatedPaths /\ requests[r].auth # SECRET_KEY)
        => /\ Done(r)
           /\ requests[r].response = Json(403, [error |-> "Unauthorized"])
           /\ requests[r].calls = <<>>

\* two gated routes each rejected a request: one that came without the
\* header, one whose header was not the secret
C1_Witness ==
    /\ requests[1].path = "/lock_car" /\ requests[1].auth = None
    /\ requests[1].response.status = 403
    /\ requests[2].path = "/auth_status" /\ requests[2].auth = "Bearer s3cret"
    /\ requests[2].response.status = 403

(* C2, as stated: whenever the vehicle collection is empty no command is
   issued, and every command issued follows, in its request, the resolution
   of exactly one vehicle identifier. *)
C2_NoCommandOnEmptyCollection ==
    [][\A r \in RequestIds :
          (requests[r].pc = "command" /\ requests'[r].pc = "done")
          => /\ Len(vehicle_manager.vehicles) > 0
             /\ requests[r].vehicle_id # None]_vars

(* C2, amended: a command is issued only after get_vehicle_id() returned one
   identifier in the same request, and it is issued for that identifier; and
   when no identifier is configured and the collection get_vehicle_id() reads
   is empty, the request issues no command. *)
C2_CommandFollowsResolution ==
    \A r \in RequestIds :
        LET c == requests[r].calls IN
        /\ \A i \in CallsOf(r, CommandOps) :
              /\ i > 1
              /\ c[i-1].op = "get_vehicle_id" /\ c[i-1].outcome = "ok"
              /\ c[i-1].arg.value # None
              /\ c[i].arg.vehicle_id = c[i-1].arg.value
              /\ Cardinality(CallsOf(r, {"get_vehicle_id"})) = 1
        /\ \A i \in CallsOf(r, {"get_vehicle_id"}) :
              (~Truthy(c[i].arg.configured) /\ c[i].arg.vehicles = <<>>)
              => /\ CallsOf(r, CommandOps) = {}
                 /\ Done(r)

\* a command request found the collection empty with no identifier configured,
\* and ended without a command
C2_Witness ==
    \E r \in RequestIds :
        /\ requests[r].path \in CommandPaths /\ Done(r)
        /\ Len(requests[r].calls) = 3
        /\ requests[r].calls[3].op = "get_vehicle_id"
        /\ requests[r].calls[3].arg.configured = None
        /\ requests[r].calls[3].arg.vehicles = <<>>

(* C3: when the token refresh of an authorized request to /list_vehicles or a
   command route fails with an authentication error, the answer is 401 with
   exactly the fields error, details and action, the refresh was called once,
   and neither the sync nor a command was called. *)
C3_AuthFailureIs401 ==
    \A r \in RequestIds :
        (/\ requests[r].path \in CommandPaths \cup {"/list_vehicles"}
         /\ Authorized(r)
         /\ RefreshEnded(r, "AuthenticationError"))
        => /\ Done(r)
           /\ requests[r].response.status = 401
           /\ requests[r].response.json
           /\ DOMAIN requests[r].response.body = {"error", "details", "action"}
           /\ Len(requests[r].calls) = 1

C3_Witness ==
    \E r \in RequestIds :
        /\ requests[r].path = "/list_vehicles" /\ Authorized(r)
        /\ RefreshEnded(r, "AuthenticationError")
        /\ requests[r].response.status = 401

(* C4: an authorized request to a command route calls token refresh, sync,
   get_vehicle_id() and its one command in that order; each is called only if
   all before it returned; at most one command is called; and 200 is answered
   only after the command returned. *)
C4_CommandSequence ==
    \A r \in RequestIds :
        (requests[r].path \in CommandPaths /\ Authorized(r))
        => LET c == requests[r].calls
               order == <<"check_and_refresh_token",
                          "update_all_vehicles_with_cached_state",
                          "get_vehicle_id", Command(requests[r].path).op>>
           IN  /\ Len(c) <= 4
               /\ \A i \in 1..Len(c) :
                     /\ c[i].op = order[i]
                     /\ i < Len(c) => c[i].outcome = "ok"
               /\ Cardinality(CallsOf(r, CommandOps)) <= 1
               /\ requests[r].response.status = 200
                  => (Len(c) = 4 /\ c[4].outcome = "ok")
               /\ (Len(c) = 4 /\ Done(r) /\ c[4].outcome # "ok")
                  => requests[r].response.status # 200

\* one command request went through all four calls and was answered 200,
\* another had its command raise
C4_Witness ==
    \E r, q \in RequestIds :
        /\ requests[r].path \in CommandPaths /\ requests[r].response.status = 200
        /\ Len(requests[r].calls) = 4
        /\ requests[q].path \in CommandPaths /\ Done(q)
        /\ Len(requests[q].calls) = 4 /\ requests[q].calls[4].outcome = "Exception"

(* C5: when vehicle resolution fails because there are no vehicles, an
   authorized /list_vehicles answers 404 and an authorized command route
   answers 500; no route but /list_vehicles ever answers 404. *)
C5_NoVehiclesStatus ==
    \A r \in RequestIds :
        LET c == requests[r].calls IN
        /\ (requests[r].path = "/list_vehicles" /\ Authorized(r)
            /\ \E i \in CallsOf(r, {"vehicles"}) : c[i].arg = <<>>)
           => (Done(r) /\ requests[r].response.status = 404)
        /\ (requests[r].path \in CommandPaths /\ Authorized(r)
            /\ \E i \in CallsOf(r, {"get_vehicle_id"}) : c[i].outcome = "ValueError")
           => (Done(r) /\ requests[r].response.status = 500)
        /\ requests[r].response.status = 404 => requests[r].path = "/list_vehicles"

\* both cases in one run: /list_vehicles answered 404, a command route 500
C5_Witness ==
    \E r, q \in RequestIds :
        /\ requests[r].path = "/list_vehicles" /\ requests[r].response.status = 404
        /\ requests[q].path = "/unlock_car" /\ requests[q].response.status = 500
        /\ Len(requests[q].calls) = 3 /\ requests[q].calls[3].outcome = "ValueError"

(* C6, as stated: every response with a status other than 200, from any
   route, /auth_status included, is a JSON object with an error field. *)
C6_EveryFailureHasError ==
    \A r \in RequestIds :
        (Done(r) /\ requests[r].response.status # 200)
        => HasField(requests[r].response, "error")

(* C6, amended: every response with a status other than 200 from
   /list_vehicles or a command route, and every 403, is a JSON object with an
   error field; the 401 of /auth_status is a JSON object with the fields
   status and message and no error field. *)
C6_FailureHasErrorExceptAuthStatus ==
    \A r \in RequestIds :
        /\ (/\ Done(r) /\ requests[r].response.status # 200
            /\ (requests[r].path # "/auth_status" \/ requests[r].response.status = 403))
           => HasField(requests[r].response, "error")
        /\ (requests[r].path = "/auth_status" /\ requests[r].response.status = 401)
           => (/\ requests[r].response.json
               /\ DOMAIN requests[r].response.body = {"status", "message"})

\* a command route answered 500 and /auth_status answered 401
C6_Witness ==
    \E r, q \in RequestIds :
        /\ requests[r].path \in CommandPaths /\ requests[r].response.status = 500
        /\ requests[q].path = "/auth_status" /\ requests[q].response.status = 401

(* C7: get_vehicle_id() agrees with this reference on every configured
   identifier and vehicle collection it is called with: a configured
   identifier is returned as it is and the collection is not read, whether or
   not the identifier is one of its keys; with none configured and a
   non-empty collection the first key enumerated is returned; with none
   configured and an empty collection the call fails and returns nothing. *)
C7_ResolverReference ==
    \A r \in RequestIds :
        \A i \in CallsOf(r, {"get_vehicle_id"}) :
            LET call == requests[r].calls[i]
                a == call.arg
            IN  IF a.configured \notin {None, ""}
                THEN call.outcome = "ok" /\ a.value = a.configured /\ ~a.read
                ELSE IF a.vehicles # <<>>
                THEN /\ call.outcome = "ok"
                     /\ a.value = a.vehicles[1]
                     /\ \E k \in 1..Len(a.vehicles) : a.value = a.vehicles[k]
                ELSE call.outcome = "ValueError" /\ a.value = None

\* the configured identifier was returned while the collection was empty, and
\* in another request while it was a later key of the collection
C7_Witness ==
    \E r, q \in RequestIds :
        /\ Len(requests[r].calls) >= 3 /\ Len(requests[q].calls) >= 3
        /\ requests[r].calls[3].arg = [configured |-> "v1", vehicles |-> <<>>,
                                       read |-> FALSE, value |-> "v1"]
        /\ requests[q].calls[3].arg = [configured |-> "v1", vehicles |-> <<"v2", "v1">>,
                                       read |-> FALSE, value |-> "v1"]

(* C8: GET / is answered 200 {status: "OK", service: "Kia Vehicle Control
   API"} whatever its Authorization header and whatever the state of the
   session; handling it makes no call on vehicle_manager and leaves
   vehicle_manager, and every other request, as they were. *)
C8_RootAlwaysOk ==
    /\ [](\A r \in RequestIds :
            (Has(r) /\ requests[r].path = "/")
            => /\ Done(r)
               /\ requests[r].response =
                    Json(200, [status |-> "OK", service |-> "Kia Vehicle Control API"])
               /\ requests[r].calls = <<>>)
    /\ [][\A r \in RequestIds :
            (~Has(r) /\ requests'[r].path = "/")
            => /\ vehicle_manager' = vehicle_manager
               /\ \A q \in RequestIds \ {r} : requests'[q] = requests[q]]_vars

\* GET / without a header was answered 200 after a token refresh had been
\* rejected
C8_Witness ==
    \E r, q \in RequestIds :
        /\ q < r
        /\ RefreshEnded(q, "AuthenticationError")
        /\ requests[r].path = "/" /\ requests[r].auth = None
        /\ requests[r].response.status = 200

\* request r made every call of /lock_car's sequence it got to, and each returned
LockSucceeded(r) ==
    /\ requests[r].path = "/lock_car" /\ Authorized(r) /\ Done(r)
    /\ \A i \in 1..Len(requests[r].calls) : requests[r].calls[i].outcome = "ok"

(* C9: two authorized POST /lock_car requests for which refresh, sync and
   lock succeed are each answered 200 {status: "car_locked"}, and the lock
   command is called once for each, twice in all: nothing one request did
   keeps the other's command from being called. *)
C9_LockNotDeduplicated ==
    \A r, q \in RequestIds :
        (r # q /\ LockSucceeded(r) /\ LockSucceeded(q))
        => /\ requests[r].response = Json(200, [status |-> "car_locked", result |-> "ack"])
           /\ requests[q].response = Json(200, [status |-> "car_locked", result |-> "ack"])
           /\ Cardinality(CallsOf(r, {"lock"})) = 1
           /\ Cardinality(CallsOf(q, {"lock"})) = 1

\* two /lock_car requests for the same vehicle were both answered 200, the
\* vehicle collection being the same for both
C9_Witness ==
    /\ LockSucceeded(1) /\ LockSucceeded(2)
    /\ requests[1].response.status = 200 /\ requests[2].response.status = 200
    /\ requests[1].calls[3].arg = requests[2].calls[3].arg
    /\ requests[1].calls[4] = requests[2].calls[4]

\* request r is on a command route, past its token refresh and before the
\* return of its command
BetweenRefreshAndCommand(r) ==
    /\ requests[r].path \in CommandPaths
    /\ requests[r].pc \in {"update_all_vehicles_with_cached_state",
                           "get_vehicle_id", "command"}

(* C10: nothing serializes the use of vehicle_manager: while one command
   request is between its token refresh and its command, another command
   request can make its token refresh or its sync, and the first can then
   make its command. *)
C10_NoSerialization ==
    \A r, q \in RequestIds :
        (/\ r # q
         /\ BetweenRefreshAndCommand(r)
         /\ requests[q].path \in CommandPaths
         /\ requests[q].pc \in {"check_and_refresh_token",
                                "update_all_vehicles_with_cached_state"})
        => /\ ENABLED (\/ RefreshStep(q, requests[q].path)
                       \/ SyncStep(q, requests[q].path, "get_vehicle_id"))
           /\ ENABLED command_route(r, requests[r].path)

\* request r is about to make its command, and the vehicle collection is no
\* longer the one its get_vehicle_id() saw: only a successful token refresh
\* changes it, so request q's refresh ran after r's and before r's command
C10_Witness ==
    \E r, q \in RequestIds :
        /\ r # q
        /\ requests[r].path \in CommandPaths /\ requests[r].pc = "command"
        /\ requests[r].calls[3].arg.vehicles # vehicle_manager.vehicles
        /\ requests[q].path \in CommandPaths
        /\ RefreshEnded(q, "ok")

====
